---------------------------- MODULE Spec2Model ----------------------------
(***************************************************************************)
(* Model of the Sunbird MCP content retrieval code.                        *)
(*                                                                         *)
(*   - the sandbox flavour: SandboxContentProcessor (recursive resolution  *)
(*     of a content graph, one asyncio.Semaphore per _process_child_nodes  *)
(*     call, asyncio.gather fan-in, shared visited_ids / content_items);   *)
(*   - the flat flavour: ContentProcessor (retrieve_content_ids, then      *)
(*     run_concurrent_fetches over fetch_and_filter);                      *)
(*   - BaseProcessor.process, the request validation in front of both, and *)
(*     the two entry points get_content_artifacts and                      *)
(*     get_sandbox_content_artifacts.                                      *)
(*                                                                         *)
(* asyncio is cooperative: an action of this model is the code one task    *)
(* runs between two suspension points (the HTTP call, a semaphore that is  *)
(* full, the gather).                                                      *)
(***************************************************************************)
EXTENDS Integers, Sequences, FiniteSets, TLC

(***************************************************************************)
(* Bounds of the model.                                                    *)
(***************************************************************************)
\* SandboxContentConfig.max_concurrent (20 in the code), scaled down so that
\* the small content graphs below have more children than slots.
max_concurrent == 2

\* the limit ContentProcessor.execute passes to run_concurrent_fetches (20 in
\* the code), scaled down likewise.
limit == 2

\* the per-identifier request counter saturates here ("MaxFetches or more").
MaxFetches == 3

\* the search limits tried go this far below 1 and above MAX_LIMIT
LimitSlack == 3

\* settings.DEFAULT_LIMIT and settings.MAX_LIMIT
DEFAULT_LIMIT == 10

MAX_LIMIT == 100

(***************************************************************************)
(* Strings are sequences of one-character strings, so that prefix, suffix  *)
(* and character-class tests are computed and not assumed.                 *)
(***************************************************************************)
Digits == {"0", "1", "2", "3", "4", "5", "6", "7", "8", "9"}

HexChars == Digits \cup {"a", "b", "c", "d", "e", "f"}

Whitespace == {" "}

\* the literal 'do_' (settings.CONTENT_ID_PREFIX has the same default)
Prefix == <<"d", "o", "_">>

do(suffix) == Prefix \o suffix

\* str.startswith('do_')
startswith_do(s) == Len(s) >= 3 /\ SubSeq(s, 1, 3) = Prefix

\* str.isdigit(): non-empty and every character a digit
isdigit(s) == Len(s) > 0 /\ \A i \in 1..Len(s) : s[i] \in Digits

\* str.strip() is empty: the string holds nothing but whitespace
strip_is_empty(s) == \A i \in 1..Len(s) : s[i] \in Whitespace

\* CONTENT_ID_PATTERN = re.compile(r'^[a-f0-9]{32}$') matched on the suffix
CONTENT_ID_PATTERN(s) == Len(s) = 32 /\ \A i \in 1..Len(s) : s[i] \in HexChars

(***************************************************************************)
(* A Python value given as content_id: a str (isstr, with its characters)  *)
(* or something that is no str (None, a number).                           *)
(***************************************************************************)
Str(s) == [isstr |-> TRUE, s |-> s]

NotAStr == [isstr |-> FALSE, s |-> <<>>]

\* Python truthiness of the value: None, 0 and '' are falsy
truthy(v) == v.isstr /\ Len(v.s) > 0

(***************************************************************************)
(* utils/content_validation.py: validate_content_id ('do_' + digits)       *)
(***************************************************************************)
validate_content_id(v) ==
    IF ~truthy(v) THEN <<"Content ID is required">>
    ELSE IF ~v.isstr THEN <<"Content ID must be a string">>
    ELSE IF ~startswith_do(v.s) THEN <<"Content ID must start with 'do_'">>
    ELSE IF Len(v.s) <= 3 \/ ~isdigit(SubSeq(v.s, 4, Len(v.s)))
         THEN <<"Content ID must be 'do_' followed by numbers">>
    ELSE <<>>

(***************************************************************************)
(* api/content/validation.py: validate_content_id ('do_' + 32 hex).  The   *)
(* module defines it and validate_content_request does not call it.        *)
(***************************************************************************)
validate_content_id_hex(v) ==
    IF ~truthy(v) THEN <<"Content ID is required">>
    ELSE IF ~v.isstr THEN <<"Content ID must be a string">>
    ELSE IF ~startswith_do(v.s) THEN <<"Content ID must start with 'do_'">>
    ELSE IF ~CONTENT_ID_PATTERN(SubSeq(v.s, 4, Len(v.s)))
         THEN <<"Content ID format is invalid">>
    ELSE <<>>

\* The accepted syntax of an identifier: one of the two validators accepts.
AcceptedSyntax(v) == validate_content_id(v) = <<>> \/ validate_content_id_hex(v) = <<>>

(***************************************************************************)
(* Request parameters: a dict that may hold 'content_id' and 'fields'.     *)
(* fields is "absent", "list_of_str" or "other".                           *)
(***************************************************************************)
Params(has_id, v, fields) == [has_id |-> has_id, content_id |-> v, fields |-> fields]

\* the fields branch shared by the validators
fields_errors(params) ==
    IF params.fields = "other" THEN <<"fields must be a list of strings">> ELSE <<>>

\* api/content/validation.py: validate_content_request -> (validated, errors);
\* validated is given by has_id (whether validated['content_id'] was set).
validate_content_request(params) ==
    LET idErrors ==
            IF ~params.has_id THEN <<"content_id is required">>
            ELSE IF ~params.content_id.isstr \/ strip_is_empty(params.content_id.s)
                 THEN <<"content_id must be a non-empty string">>
            ELSE IF ~startswith_do(params.content_id.s)
                 THEN <<"content_id must start with 'do_'">>
            ELSE <<>>
    IN  [has_id |-> idErrors = <<>>,
         content_id |-> params.content_id,
         errors |-> idErrors \o fields_errors(params)]

\* utils/content_validation.py: validate_content_request_base
validate_content_request_base(params, require_fields) ==
    LET idErrors ==
            IF ~params.has_id THEN <<"content_id is required">>
            ELSE validate_content_id(params.content_id)
    IN  [has_id |-> idErrors = <<>>,
         content_id |-> params.content_id,
         errors |-> idErrors \o (IF require_fields THEN fields_errors(params) ELSE <<>>)]

\* api/sandbox_content/validation.py, validate_content_request: the
\* ContentIdValidator of the specification (non-empty, 'do_', digits only),
\* which is the shared base validator without the fields check.
sandbox_validate_content_request(params) == validate_content_request_base(params, FALSE)

\* the pydantic validator of ContentRequest / SandboxContentRequest.content_id
\* (TRUE: the model is constructed; FALSE: construction raises)
Request_validate_content_id(validated) ==
    /\ validated.has_id
    /\ validated.content_id.isstr
    /\ ~strip_is_empty(validated.content_id.s)
    /\ startswith_do(validated.content_id.s)


(***************************************************************************)
(* The upstream content service: a function from the identifiers it knows  *)
(* to their metadata (result.content of GET .../read/{id}).  The fields are *)
(* the ones the code reads; name is Null when the JSON value is null.       *)
(***************************************************************************)
COLLECTION_MIME == "application/vnd.ekstep.content-collection"

PDF_MIME_TYPE == "application/pdf"

EXCLUDED_MIME_TYPE == "application/vnd.ekstep.ecml-archive"

Null == "<null>"

\* dict.get(key, default): a record stands for a JSON object, its DOMAIN for
\* the keys that are present
get(d, key, default) == IF key \in DOMAIN d THEN d[key] ELSE default

Collection(children) ==
    [mimeType |-> COLLECTION_MIME, leafNodes |-> children, name |-> "unit",
     artifactUrl |-> "", streamingUrl |-> ""]

Leaf(mime, url, name) ==
    [mimeType |-> mime, leafNodes |-> <<>>, name |-> name,
     artifactUrl |-> url, streamingUrl |-> url]

do_100 == do(<<"1", "0", "0">>)

do_101 == do(<<"1", "0", "1">>)

do_102 == do(<<"1", "0", "2">>)

do_103 == do(<<"1", "0", "3">>)

do_104 == do(<<"1", "0", "4">>)

do_105 == do(<<"1", "0", "5">>)

\* 'do_' followed by 32 hexadecimal characters
do_hex == do([i \in 1..32 |-> IF i % 2 = 0 THEN "a" ELSE "7"])

PdfLeaf == Leaf(PDF_MIME_TYPE, "https://host/file.pdf", "chapter")

\* the scenario of the specification: do_100 -> [do_101 -> [do_103], do_102]
ScenarioGraph ==
    (do_100 :> Collection(<<do_101, do_102>>)) @@ (do_101 :> Collection(<<do_103>>))
    @@ (do_102 :> PdfLeaf) @@ (do_103 :> PdfLeaf)

\* A lists B, B lists A (and itself, and a leaf)
CyclicGraph ==
    (do_100 :> Collection(<<do_101>>))
    @@ (do_101 :> Collection(<<do_100, do_101, do_102>>)) @@ (do_102 :> PdfLeaf)

\* do_103 is listed by two parents, and twice by one of them
SharedGraph ==
    (do_100 :> Collection(<<do_101, do_102>>)) @@ (do_101 :> Collection(<<do_103, do_103>>))
    @@ (do_102 :> Collection(<<do_103>>)) @@ (do_103 :> PdfLeaf)

\* nested collections, three children at the root, leaves of every kind;
\* do_105 is listed and unknown to the service (404)
NestedGraph ==
    (do_100 :> Collection(<<do_101, do_102, do_104>>))
    @@ (do_101 :> Collection(<<do_103, do_105>>))
    @@ (do_102 :> Leaf(EXCLUDED_MIME_TYPE, "https://host/file.ecml", "quiz"))
    @@ (do_103 :> PdfLeaf)
    @@ (do_104 :> Leaf(PDF_MIME_TYPE, "", "draft"))

\* a root that is a leaf, a collection without children, a leaf whose name is null
LeafRootGraph == (do_100 :> PdfLeaf)

EmptyCollectionGraph == (do_100 :> Collection(<<>>))

\* a collection whose metadata has no leafNodes key at all
AbsentLeafNodesGraph ==
    (do_100 :> [mimeType |-> COLLECTION_MIME, name |-> "unit", artifactUrl |-> "",
                streamingUrl |-> ""])

NullNameGraph ==
    (do_100 :> Collection(<<do_101, do_102>>))
    @@ (do_101 :> Leaf(PDF_MIME_TYPE, "https://host/file.pdf", Null)) @@ (do_102 :> PdfLeaf)

\* acyclic, wider and deeper than the slots of one semaphore: the root lists
\* two collections and a leaf, and do_100 -> do_101 -> do_103 -> do_105 is a
\* chain of three nested fan-outs
DeepWideGraph ==
    (do_100 :> Collection(<<do_101, do_102, do_104>>))
    @@ (do_101 :> Collection(<<do_103>>))
    @@ (do_102 :> Collection(<<do_105>>))
    @@ (do_103 :> Collection(<<do_105>>))
    @@ (do_104 :> PdfLeaf) @@ (do_105 :> PdfLeaf)

\* do_101 has the mimeType of a PDF and lists a child all the same
HybridGraph ==
    (do_100 :> Collection(<<do_101>>))
    @@ (do_101 :> [PdfLeaf EXCEPT !.leafNodes = <<do_102>>])
    @@ (do_102 :> PdfLeaf)

\* the root lists the leaf do_101 twice
DuplicateLeafGraph == (do_100 :> Collection(<<do_101, do_101>>)) @@ (do_101 :> PdfLeaf)

\* the root lists a valid identifier and one that is not 'do_' + digits
do_x == do(<<"x">>)

InvalidChildGraph == (do_100 :> Collection(<<do_101, do_x>>)) @@ (do_101 :> PdfLeaf)

Worlds ==
    {ScenarioGraph, CyclicGraph, SharedGraph, NestedGraph, LeafRootGraph,
     EmptyCollectionGraph, AbsentLeafNodesGraph, NullNameGraph, DeepWideGraph,
     HybridGraph, DuplicateLeafGraph, InvalidChildGraph}

\* the request parameters a caller may send
Requests ==
    {Params(FALSE, NotAStr, "absent"),
     Params(TRUE, NotAStr, "absent"),
     Params(TRUE, Str(<<>>), "absent"),
     Params(TRUE, Str(<<" ">>), "absent"),
     Params(TRUE, Str(<<"1", "0", "0">>), "absent"),
     Params(TRUE, Str(Prefix), "absent"),
     Params(TRUE, Str(do(<<"x", "y">>)), "absent"),
     Params(TRUE, Str(do(<<"a", "b">>)), "absent"),
     Params(TRUE, Str(do_hex), "absent"),
     Params(TRUE, Str(do_100), "absent"),
     Params(TRUE, Str(do_100), "list_of_str"),
     Params(TRUE, Str(do_100), "other")}

\* what one GET can end in: HTTP 200, HTTP 404, another status, or an
\* exception raised by the HTTP call (transport failure, timeout)
Outcomes == {"ok", "notfound", "error", "raise"}

(***************************************************************************)
(* State.                                                                  *)
(***************************************************************************)
VARIABLES
    flavor,         \* the entry point called: "sandbox" get_sandbox_content_artifacts,
                    \* "content" get_content_artifacts, "server" the tool
                    \* read_sunbird_content, "diksha" the tool read_diksha_content
    params,         \* the content_params of the call
    upstream,       \* the content service
    response,       \* what the entry point gave its caller: NoResponse, a payload, a raised exception
    visited_ids,    \* SandboxContentProcessor.visited_ids
    content_items,  \* SandboxContentProcessor.content_items
    artifact_urls,  \* the artifact_urls list of ContentProcessor.execute
    task,           \* the coroutines of the call: task id -> [pc, node, got]
    sem,            \* the semaphores: creating node -> slots held
    requests,       \* identifier -> GETs issued for it (saturating at MaxFetches)
    call,           \* a function called on its own: its name and arguments (NoCall otherwise)
    result          \* what that call has done so far and returned (NoResult otherwise)

vars ==
    <<flavor, params, upstream, response, visited_ids, content_items, artifact_urls,
      task, sem, requests, call, result>>

NoResponse == [kind |-> "none"]

NoCall == [fn |-> "none"]

NoResult == [pc |-> "none"]

\* the task that runs process() -> execute(); its children are <<parent node, index>>
Main == <<<<>>, 0>>

\* task positions: "waiting" (for a slot), "fetching" (GET in flight),
\* "gather" (awaiting asyncio.gather of its children), "done", "failed" (raised)
NewTask(node) == [pc |-> "waiting", node |-> node, got |-> "none"]

Tasks == DOMAIN task

Children(t) == {c \in Tasks : c # Main /\ c[1] = task[t].node /\ task[t].pc = "gather"}

Finished(t) == task[t].pc \in {"done", "failed"}

\* the GETs in flight
InFlight == {t \in Tasks : task[t].pc = "fetching"}

\* the outcomes the service can give for an identifier
OutcomesOf(id) ==
    IF id \in DOMAIN upstream THEN {"ok", "error", "raise"} ELSE {"notfound", "error", "raise"}

Inc(n) == IF n < MaxFetches THEN n + 1 ELSE n

Requested(id) == IF id \in DOMAIN requests THEN requests[id] ELSE 0

\* one more GET for the identifier
CountRequestIn(reqs, id) ==
    (id :> Inc(IF id \in DOMAIN reqs THEN reqs[id] ELSE 0)) @@ reqs

\* mutant of try_claim: the visited check is lost
try_claim_always(id, visited) == TRUE

\* _process_content, the visited check: the identifier is not yet in visited_ids
try_claim(id, visited) == id \notin visited

\* the flavours that fetch the leafNodes of the root and nothing below them
Flat == {"content", "server"}

Init ==
    /\ flavor \in {"sandbox", "content", "server", "diksha"}
    /\ params \in Requests
    /\ upstream \in Worlds
    /\ response = NoResponse
    /\ visited_ids = {}
    /\ content_items = <<>>
    /\ artifact_urls = <<>>
    /\ task = (Main :> [pc |-> "start", node |-> <<>>, got |-> "none"])
    /\ sem = <<>>
    /\ requests = <<>>
    /\ call = NoCall
    /\ result = NoResult

(***************************************************************************)
(* Payloads and exceptions.                                                *)
(***************************************************************************)
\* mutant of sandbox_success: an empty result reported as ContentProcessor.execute
\* reports it, as an error
sandbox_success_empty_is_error(items) ==
    IF items = <<>>
    THEN [kind |-> "payload", success |-> FALSE, content |-> <<>>, count |-> 0,
          message |-> "No content found", error |-> "No content IDs found"]
    ELSE [kind |-> "payload", success |-> TRUE, content |-> items, count |-> Len(items),
          message |-> "Successfully retrieved content items", error |-> Null]

\* SandboxContentProcessor.execute, the return of the try block
sandbox_success(items) ==
    [kind |-> "payload", success |-> TRUE, content |-> items, count |-> Len(items),
     message |-> "Successfully retrieved content items", error |-> Null]

\* mutant of sandbox_failure: the exception is swallowed
sandbox_failure_swallowed ==
    [kind |-> "payload", success |-> TRUE, content |-> <<>>, count |-> 0,
     message |-> "Successfully retrieved content items", error |-> Null]

\* mutant of sandbox_failure: the items gathered before the exception are
\* returned with the error
sandbox_failure_with_items ==
    [kind |-> "payload", success |-> FALSE, content |-> content_items, count |-> 0,
     message |-> "Failed to retrieve content", error |-> "exception"]

\* SandboxContentProcessor.execute, the return of the except block
sandbox_failure ==
    [kind |-> "payload", success |-> FALSE, content |-> <<>>, count |-> 0,
     message |-> "Failed to retrieve content", error |-> "exception"]

\* ContentProcessor.execute, the two error returns and the final return
content_error(error, message) ==
    [kind |-> "payload", artifact_urls |-> <<>>, count |-> 0, message |-> message,
     error |-> error]

content_success(urls) ==
    [kind |-> "payload", artifact_urls |-> urls, count |-> Len(urls),
     message |-> "Successfully retrieved artifact URLs for non-ECML content",
     error |-> Null]

\* BaseProcessor.process, the except block: the four known exceptions are
\* raised again, every other one is wrapped in SunbirdAPIError and raised.
process_except(exception) ==
    IF exception \in {"ValidationError", "AuthenticationError", "ResourceNotFoundError",
                      "RateLimitExceededError"}
    THEN [kind |-> "raised", exception |-> exception]
    ELSE [kind |-> "raised", exception |-> "SunbirdAPIError"]

\* SandboxContentProcessor.pre_process: "ok" or the exception it raises
sandbox_pre_process(request_data) ==
    LET v == sandbox_validate_content_request(request_data)
    IN  IF v.errors # <<>> THEN "ValidationError"
        ELSE IF ~Request_validate_content_id(v) THEN "pydantic.ValidationError"
        ELSE "ok"

\* ContentProcessor.pre_process: "ok" or the exception it raises
content_pre_process(request_data) ==
    LET v == validate_content_request(request_data)
    IN  IF v.errors # <<>> THEN "ValueError"
        ELSE IF ~Request_validate_content_id(v) THEN "pydantic.ValidationError"
        ELSE "ok"

pre_process(request_data) ==
    IF flavor = "sandbox" THEN sandbox_pre_process(request_data)
    ELSE content_pre_process(request_data)

\* read_sunbird_content, "Validate input parameters": "ok" or the error it returns
read_sunbird_content_validation(request_data) ==
    IF ~request_data.has_id THEN "content_id is required"
    ELSE IF ~request_data.content_id.isstr \/ strip_is_empty(request_data.content_id.s)
         THEN "content_id must be a non-empty string"
    ELSE IF ~startswith_do(request_data.content_id.s)
         THEN "content_id must start with 'do_'"
    ELSE "ok"

\* server.py, json.dumps({"error": ...}): the keys of the JSON object are the
\* fields of the record
json_error(error) == [kind |-> "payload", error |-> error]

\* server.py, the JSON read_sunbird_content returns after the fan-out
json_success(urls) ==
    [kind |-> "payload", artifact_urls |-> urls, count |-> Len(urls),
     message |-> "Successfully retrieved artifact URLs for non-ECML content"]

\* artifact_urls.append(content.get("streamingUrl")) where fetch_and_filter
\* runs it.  In api/content/api.py artifact_urls is a parameter.  In server.py
\* fetch_and_filter is a function of the module and artifact_urls a local of
\* read_sunbird_content: the name is not defined, the statement raises
\* NameError, which the except of fetch_and_filter logs, and nothing is appended.
append_streamingUrl(urls, content) ==
    IF flavor = "content" THEN Append(urls, content.streamingUrl) ELSE urls

\* mutant of is_collection: a non-empty leafNodes makes a collection as well
is_collection_or_has_leafNodes(content) ==
    \/ content.mimeType = COLLECTION_MIME
    \/ get(content, "leafNodes", <<>>) # <<>>

\* _process_content, "Check if it's a collection"
is_collection(content) == content.mimeType = COLLECTION_MIME

\* mutant of extract_content_item: the filter of the flat flavour applied
extract_content_item_filtered(id, content) ==
    IF content.name = Null \/ content.mimeType # PDF_MIME_TYPE \/ content.artifactUrl = ""
    THEN <<>>
    ELSE <<[identifier |-> id, name |-> content.name, mimeType |-> content.mimeType,
            artifactUrl |-> content.artifactUrl]>>

\* SandboxContentProcessor._extract_content_item: <<item>>, or <<>> for the
\* None it returns when the construction of SandboxContentItem raises (name
\* is a required str, and null is none)
extract_content_item(id, content) ==
    IF content.name = Null THEN <<>>
    ELSE <<[identifier |-> id, name |-> content.name, mimeType |-> content.mimeType,
            artifactUrl |-> content.artifactUrl]>>

\* mutant of fetch_and_filter_qualifies: an empty streamingUrl qualifies
fetch_and_filter_qualifies_any_url(content) ==
    /\ content.mimeType # EXCLUDED_MIME_TYPE
    /\ content.mimeType = PDF_MIME_TYPE

\* fetch_and_filter, the condition under which the streamingUrl is appended
fetch_and_filter_qualifies(content) ==
    /\ content.mimeType # EXCLUDED_MIME_TYPE
    /\ content.mimeType = PDF_MIME_TYPE
    /\ content.streamingUrl # ""

(***************************************************************************)
(* BaseProcessor.process up to the first suspension: pre_process, then     *)
(* execute until its first GET is issued (the root's metadata).            *)
(***************************************************************************)
process ==
    /\ flavor \in {"sandbox", "content"}
    /\ task[Main].pc = "start"
    /\ LET outcome == pre_process(params)
           id == params.content_id.s
           fetching == [task EXCEPT ![Main] = [pc |-> "fetching", node |-> id, got |-> "none"]]
       IN  IF outcome # "ok"
           THEN \* process raises
                /\ response' = process_except(outcome)
                /\ task' = [task EXCEPT ![Main].pc = "failed"]
                /\ UNCHANGED <<visited_ids, requests>>
           ELSE IF flavor = "content"
           THEN \* ContentProcessor.execute -> retrieve_content_ids, its GET
                /\ response' = response
                /\ task' = fetching
                /\ requests' = CountRequestIn(requests, id)
                /\ UNCHANGED visited_ids
           ELSE IF try_claim(id, visited_ids)
           THEN \* SandboxContentProcessor.execute -> _process_content, its GET
                /\ response' = response
                /\ task' = fetching
                /\ visited_ids' = visited_ids \cup {id}
                /\ requests' = CountRequestIn(requests, id)
           ELSE \* _process_content returns at once and execute returns
                /\ response' = sandbox_success(content_items)
                /\ task' = [task EXCEPT ![Main].pc = "done", ![Main].node = id]
                /\ UNCHANGED <<visited_ids, requests>>
    /\ UNCHANGED <<call, result, flavor, params, upstream, content_items, artifact_urls, sem>>

(***************************************************************************)
(* The tool read_sunbird_content of server.py up to its first suspension:  *)
(* an error for a malformed content_id, or retrieve_content_ids and its    *)
(* GET.                                                                    *)
(***************************************************************************)
read_sunbird_content ==
    /\ flavor = "server"
    /\ task[Main].pc = "start"
    /\ LET error == read_sunbird_content_validation(params)
           id == params.content_id.s
       IN  IF error # "ok"
           THEN /\ response' = json_error(error)
                /\ task' = [task EXCEPT ![Main].pc = "done"]
                /\ requests' = requests
           ELSE /\ response' = response
                /\ task' = [task EXCEPT ![Main] = [pc |-> "fetching", node |-> id, got |-> "none"]]
                /\ requests' = CountRequestIn(requests, id)
    /\ UNCHANGED <<call, result, flavor, params, upstream, visited_ids, content_items,
                   artifact_urls, sem>>

(***************************************************************************)
(* The tool read_diksha_content.  diksha_mcp/src/server.py has two lines   *)
(* that start with '+' in column 0 inside the "async with" of              *)
(* search_diksha_content (lines 204 and 208): the module does not compile  *)
(* (IndentationError), so loading it raises and none of its functions,     *)
(* read_diksha_content included, ever runs.                                *)
(***************************************************************************)
read_diksha_content ==
    /\ flavor = "diksha"
    /\ task[Main].pc = "start"
    /\ response' = [kind |-> "raised", exception |-> "IndentationError"]
    /\ task' = [task EXCEPT ![Main].pc = "failed"]
    /\ UNCHANGED <<call, result, flavor, params, upstream, visited_ids, content_items,
                   artifact_urls, sem, requests>>

(***************************************************************************)
(* The tasks of a fan-out.  asyncio.gather wraps every coroutine in a task *)
(* and the event loop runs the first step of each, in list order, before   *)
(* it polls for I/O again: when the awaiter of the gather is suspended its *)
(* tasks have entered the semaphore and issued their GET, or wait for a    *)
(* slot.  st is what these first steps read and write:                     *)
(* [task, visited_ids, held, requests], held being the slots taken.        *)
(***************************************************************************)
\* mutant of process_node_enter: the identifier is checked and fetched, and
\* not added to visited_ids
process_node_enter_unmarked(st, t, node) ==
    IF try_claim(node, st.visited_ids)
    THEN [task |-> (t :> [pc |-> "fetching", node |-> node, got |-> "none"]) @@ st.task,
          visited_ids |-> st.visited_ids,
          held |-> st.held + 1,
          requests |-> CountRequestIn(st.requests, node)]
    ELSE [st EXCEPT !.task = (t :> [pc |-> "done", node |-> node, got |-> "none"]) @@ st.task]

\* process_node past "async with semaphore": _process_content up to its GET,
\* or its immediate return (and the release of the slot) on a visited id
process_node_enter(st, t, node) ==
    IF try_claim(node, st.visited_ids)
    THEN [task |-> (t :> [pc |-> "fetching", node |-> node, got |-> "none"]) @@ st.task,
          visited_ids |-> st.visited_ids \cup {node},
          held |-> st.held + 1,
          requests |-> CountRequestIn(st.requests, node)]
    ELSE [st EXCEPT !.task = (t :> [pc |-> "done", node |-> node, got |-> "none"]) @@ st.task]

\* fetch_with_limit past "async with semaphore": fetch_and_filter up to its GET
fetch_with_limit_enter(st, t, node) ==
    [st EXCEPT !.task = (t :> [pc |-> "fetching", node |-> node, got |-> "none"]) @@ st.task,
               !.held = st.held + 1,
               !.requests = CountRequestIn(st.requests, node)]

\* the body of "async with semaphore" up to its first suspension
enter(st, t, node) ==
    IF flavor = "sandbox" THEN process_node_enter(st, t, node)
    ELSE fetch_with_limit_enter(st, t, node)

\* the size of the semaphore the fan-out creates
semaphore_size == IF flavor = "sandbox" THEN max_concurrent ELSE limit

\* mutant of first_step: the semaphore admits every task
first_step_unbounded(st, t, node) == enter(st, t, node)

\* the first step of a new task: Semaphore.acquire returns at once when a
\* slot is free and suspends the task otherwise
first_step(st, t, node) ==
    IF st.held < semaphore_size THEN enter(st, t, node)
    ELSE [st EXCEPT !.task = (t :> NewTask(node)) @@ st.task]

RECURSIVE gather_start(_, _, _, _)
\* tasks = [... for node_id in node_ids]; asyncio.gather(*tasks): the tasks
\* <<parent, i>>, i from 1, each run to its first suspension
gather_start(st, parent, node_ids, i) ==
    IF i > Len(node_ids) THEN st
    ELSE gather_start(first_step(st, <<parent, i>>, node_ids[i]), parent, node_ids, i + 1)

\* _process_child_nodes / run_concurrent_fetches of task t up to the gather
fan_out(t, node_ids, got) ==
    LET st == gather_start([task |-> [task EXCEPT ![t].pc = "gather", ![t].got = got],
                            visited_ids |-> visited_ids,
                            held |-> 0,
                            requests |-> requests],
                           task[t].node, node_ids, 1)
    IN  /\ task' = st.task
        /\ visited_ids' = st.visited_ids
        /\ requests' = st.requests
        /\ sem' = (task[t].node :> st.held) @@ sem

\* a task that waited for a slot is woken and enters the semaphore
woken(t) ==
    LET st == enter([task |-> task, visited_ids |-> visited_ids, held |-> sem[t[1]],
                     requests |-> requests], t, task[t].node)
    IN  /\ task' = st.task
        /\ visited_ids' = st.visited_ids
        /\ requests' = st.requests
        /\ sem' = [sem EXCEPT ![t[1]] = st.held]

\* mutant of gather_ready: the awaiter resumes when the first task returned
gather_ready_first_completed(t) == \E c \in Children(t) : task[c].pc = "done"

\* the gather resumes its awaiter with the results: every task has returned
gather_ready(t) == \A c \in Children(t) : task[c].pc = "done"

\* the gather resumes its awaiter with an exception: a task has raised
gather_raised(t) == \E c \in Children(t) : task[c].pc = "failed"

(***************************************************************************)
(* The sandbox flavour.                                                    *)
(***************************************************************************)
\* mutant of sandbox_finish: a child that ends keeps its slot
sandbox_finish_slot_kept(t, pc, got, items) ==
    /\ task' = [task EXCEPT ![t].pc = pc, ![t].got = got]
    /\ content_items' = items
    /\ response' = IF t # Main THEN response
                   ELSE IF pc = "failed" THEN sandbox_failure ELSE sandbox_success(items)
    /\ UNCHANGED <<sem, visited_ids, requests>>

\* a task of the sandbox flavour ends (returns or raises): a child leaves the
\* "async with semaphore" of process_node, Main leaves execute
sandbox_finish(t, pc, got, items) ==
    /\ task' = [task EXCEPT ![t].pc = pc, ![t].got = got]
    /\ content_items' = items
    /\ IF t = Main
       THEN /\ response' = IF pc = "failed" THEN sandbox_failure ELSE sandbox_success(items)
            /\ sem' = sem
       ELSE /\ response' = response
            /\ sem' = [sem EXCEPT ![t[1]] = @ - 1]
    /\ UNCHANGED <<visited_ids, requests>>

\* process_node: a waiting task gets its slot
process_node(t) ==
    /\ flavor = "sandbox"
    /\ t # Main
    /\ task[t].pc = "waiting"
    /\ sem[t[1]] < max_concurrent
    /\ woken(t)
    /\ UNCHANGED <<call, result, flavor, params, upstream, response, content_items, artifact_urls>>

\* _fetch_content returns (or raises) and _process_content goes on
fetch_content_return(t, outcome) ==
    /\ flavor = "sandbox"
    /\ task[t].pc = "fetching"
    /\ outcome \in OutcomesOf(task[t].node)
    /\ LET id == task[t].node IN
       CASE outcome = "raise" -> sandbox_finish(t, "failed", outcome, content_items)
         [] outcome \in {"notfound", "error"} -> sandbox_finish(t, "done", outcome, content_items)
         [] outcome = "ok" /\ is_collection(upstream[id])
                           /\ get(upstream[id], "leafNodes", <<>>) # <<>> ->
                /\ fan_out(t, upstream[id].leafNodes, outcome)
                /\ UNCHANGED <<response, content_items>>
         [] outcome = "ok" /\ is_collection(upstream[id])
                           /\ get(upstream[id], "leafNodes", <<>>) = <<>> ->
                sandbox_finish(t, "done", outcome, content_items)
         [] outcome = "ok" /\ ~is_collection(upstream[id]) ->
                sandbox_finish(t, "done", outcome,
                               content_items \o extract_content_item(id, upstream[id]))
    /\ UNCHANGED <<call, result, flavor, params, upstream, artifact_urls>>

\* asyncio.gather(*tasks) of _process_child_nodes resumes its awaiter: with
\* the first exception as soon as one task raised (the other tasks are not
\* cancelled and run on), with the results when every task returned
gather_return(t) ==
    /\ flavor = "sandbox"
    /\ task[t].pc = "gather"
    /\ IF gather_raised(t)
       THEN sandbox_finish(t, "failed", task[t].got, content_items)
       ELSE /\ gather_ready(t)
            /\ sandbox_finish(t, "done", task[t].got, content_items)
    /\ UNCHANGED <<call, result, flavor, params, upstream, artifact_urls>>

(***************************************************************************)
(* The flat flavour.                                                       *)
(***************************************************************************)
\* retrieve_content_ids returns (content_ids, error) and ContentProcessor.execute
\* goes on: an error payload, or run_concurrent_fetches up to its gather
retrieve_content_ids_return(outcome) ==
    /\ flavor \in Flat
    /\ task[Main].pc = "fetching"
    /\ outcome \in OutcomesOf(task[Main].node)
    /\ LET id == task[Main].node
           fail(error, message) ==
               /\ response' = IF flavor = "content" THEN content_error(error, message)
                               ELSE json_error(error)
               /\ task' = [task EXCEPT ![Main].pc = "done", ![Main].got = outcome]
               /\ UNCHANGED <<sem, visited_ids, requests>>
       IN
       CASE outcome = "raise" ->
                fail("Failed to process request", "Failed to retrieve content IDs")
         [] outcome \in {"notfound", "error"} ->
                fail("Sunbird API request failed", "Failed to retrieve content IDs")
         [] outcome = "ok" /\ flavor = "server" /\ "leafNodes" \notin DOMAIN upstream[id] ->
                \* server.py: data["result"]["content"]["leafNodes"] raises KeyError
                fail("Failed to process request", "Failed to retrieve content IDs")
         [] outcome = "ok" /\ get(upstream[id], "leafNodes", <<>>) = <<>>
                           /\ (flavor = "content" \/ "leafNodes" \in DOMAIN upstream[id]) ->
                fail("No content IDs found for the given content_id", "No content found")
         [] outcome = "ok" /\ get(upstream[id], "leafNodes", <<>>) # <<>> ->
                /\ response' = response
                /\ fan_out(Main, upstream[id].leafNodes, outcome)
    /\ UNCHANGED <<call, result, flavor, params, upstream, content_items, artifact_urls>>

\* fetch_with_limit: a waiting task gets its slot
fetch_with_limit(t) ==
    /\ flavor \in Flat
    /\ t # Main
    /\ task[t].pc = "waiting"
    /\ sem[t[1]] < limit
    /\ woken(t)
    /\ UNCHANGED <<call, result, flavor, params, upstream, response, content_items, artifact_urls>>

\* the GET of fetch_and_filter ends: the URL is appended or not, an exception
\* is logged and swallowed, and fetch_with_limit leaves the semaphore
fetch_and_filter_return(t, outcome) ==
    /\ flavor \in Flat
    /\ t # Main
    /\ task[t].pc = "fetching"
    /\ outcome \in OutcomesOf(task[t].node)
    /\ artifact_urls' =
           IF outcome = "ok" /\ fetch_and_filter_qualifies(upstream[task[t].node])
           THEN append_streamingUrl(artifact_urls, upstream[task[t].node])
           ELSE artifact_urls
    /\ task' = [task EXCEPT ![t].pc = "done", ![t].got = outcome]
    /\ sem' = [sem EXCEPT ![t[1]] = @ - 1]
    /\ UNCHANGED <<call, result, flavor, params, upstream, response, visited_ids, content_items, requests>>

\* the gather of run_concurrent_fetches resumes ContentProcessor.execute,
\* which returns the success payload
run_concurrent_fetches_return ==
    /\ flavor \in Flat
    /\ task[Main].pc = "gather"
    /\ gather_ready(Main)
    /\ response' = IF flavor = "content" THEN content_success(artifact_urls)
                   ELSE json_success(artifact_urls)
    /\ task' = [task EXCEPT ![Main].pc = "done"]
    /\ UNCHANGED <<call, result, flavor, params, upstream, visited_ids, content_items, artifact_urls, sem, requests>>

(***************************************************************************)
(* A SandboxContentProcessor that handles a further call.  visited_ids and *)
(* content_items are attributes of the instance: __init__ and initialize   *)
(* (run once, by __aenter__) empty them, process and execute do not.       *)
(***************************************************************************)
\* the caller awaits processor.process(request_data) again on the instance
\* whose previous call has ended and left no task behind
process_again ==
    /\ flavor = "sandbox"
    /\ response.kind # "none"
    /\ \A t \in Tasks : Finished(t)
    /\ response' = NoResponse
    /\ task' = (Main :> [pc |-> "start", node |-> <<>>, got |-> "none"])
    /\ sem' = <<>>
    /\ requests' = <<>>
    /\ UNCHANGED <<call, result, flavor, params, upstream, visited_ids, content_items,
                   artifact_urls>>

(***************************************************************************)
(* The specification.                                                      *)
(***************************************************************************)
Next ==
    \/ process
    \/ read_sunbird_content
    \/ read_diksha_content
    \/ \E t \in Tasks : process_node(t)
    \/ \E t \in Tasks, outcome \in Outcomes : fetch_content_return(t, outcome)
    \/ \E t \in Tasks : gather_return(t)
    \/ \E outcome \in Outcomes : retrieve_content_ids_return(outcome)
    \/ \E t \in Tasks : fetch_with_limit(t)
    \/ \E t \in Tasks, outcome \in Outcomes : fetch_and_filter_return(t, outcome)
    \/ run_concurrent_fetches_return

Spec == Init /\ [][Next]_vars

\* the event loop runs every task that can run, and every GET ends
FairSpec == Spec /\ WF_vars(Next)

\* one processor instance used for call after call
ReuseNext ==
    \/ Next
    \/ process_again

ReuseSpec == Init /\ [][ReuseNext]_vars

(***************************************************************************)
(* Functions called on their own.  The variables of the resolution are     *)
(* idle; call holds the function and its arguments, result what it has     *)
(* done and returned.                                                      *)
(***************************************************************************)
main_vars ==
    <<flavor, params, upstream, response, visited_ids, content_items, artifact_urls,
      task, sem, requests>>

Idle ==
    /\ flavor = "none"
    /\ params = Params(FALSE, NotAStr, "absent")
    /\ upstream = <<>>
    /\ response = NoResponse
    /\ visited_ids = {}
    /\ content_items = <<>>
    /\ artifact_urls = <<>>
    /\ task = (Main :> [pc |-> "idle", node |-> <<>>, got |-> "none"])
    /\ sem = <<>>
    /\ requests = <<>>

(***************************************************************************)
(* JSON values as Python sees them: None, a str, a list of str.  v is a    *)
(* sequence of strings, each a sequence of characters: the one string of a *)
(* str, the elements of a list, nothing for None.  Absent stands for a key *)
(* the object does not have.                                               *)
(***************************************************************************)
PyNone == [type |-> "none", v |-> <<>>]

PyStr(chars) == [type |-> "str", v |-> <<chars>>]

PyList(strs) == [type |-> "list", v |-> strs]

Absent == [type |-> "absent", v |-> <<>>]

\* Python truthiness: None, '' and [] are falsy
bool(x) ==
    \/ x.type = "str" /\ x.v[1] # <<>>
    \/ x.type = "list" /\ x.v # <<>>

\* x[0] of a non-empty list of str (its first element) or of a non-empty str
\* (its first character)
subscript_0(x) ==
    IF x.type = "list" THEN PyStr(x.v[1]) ELSE PyStr(<<x.v[1][1]>>)

\* mutant of select: the prefixed variant is preferred to the generic field
select_prefixed_first(content, generic, prefixed) ==
    IF prefixed \in DOMAIN content /\ bool(content[prefixed]) THEN content[prefixed]
    ELSE get(content, generic, PyList(<<>>))

\* _extract_content_item, "Handle different field name variations":
\*   x = content.get(generic, []); if not x and prefixed in content: x = content[prefixed]
select(content, generic, prefixed) ==
    LET x == get(content, generic, PyList(<<>>))
    IN  IF ~bool(x) /\ prefixed \in DOMAIN content THEN content[prefixed] ELSE x

\* x if isinstance(x, list) else [x] if x else []
coerce_list(x) ==
    IF x.type = "list" THEN x
    ELSE IF bool(x) THEN PyList(<<x.v[1]>>)
    ELSE PyList(<<>>)

\* mutant of select_board: the board coerced to a list like the other three
select_board_as_list(content) ==
    coerce_list(select(content, "board", "se_boards"))

\* board = content.get("board")
\* if not board and "se_boards" in content and content["se_boards"]:
\*     board = content["se_boards"][0]
select_board(content) ==
    LET board == get(content, "board", PyNone)
    IN  IF ~bool(board) /\ "se_boards" \in DOMAIN content /\ bool(content["se_boards"])
        THEN subscript_0(content["se_boards"])
        ELSE board

\* the validation of the pydantic model SandboxContentItem: the required str
\* fields hold a str, the Optional[str] fields a str or None, the List[str]
\* fields a list; <<item>>, or <<>> when the construction raises
SandboxContentItem(fields) ==
    IF /\ \A k \in {"identifier", "name", "mimeType", "primaryCategory"} :
              fields[k].type = "str"
       /\ \A k \in {"previewUrl", "artifactUrl", "board", "lastPublishedOn"} :
              fields[k].type \in {"str", "none"}
       /\ \A k \in {"subject", "gradeLevel", "medium"} : fields[k].type = "list"
    THEN <<fields>>
    ELSE <<>>

\* SandboxContentProcessor._extract_content_item on the whole metadata:
\* <<item>>, or <<>> for the None of the except branch
_extract_content_item(content) ==
    SandboxContentItem(
        [identifier |-> get(content, "identifier", PyStr(<<>>)),
         name |-> get(content, "name", PyStr(<<>>)),
         previewUrl |-> get(content, "previewUrl", PyNone),
         artifactUrl |-> get(content, "artifactUrl", PyNone),
         mimeType |-> get(content, "mimeType", PyStr(<<>>)),
         primaryCategory |-> get(content, "primaryCategory", PyStr(<<>>)),
         subject |-> coerce_list(select(content, "subject", "se_subjects")),
         gradeLevel |-> coerce_list(select(content, "gradeLevel", "se_gradeLevels")),
         medium |-> coerce_list(select(content, "medium", "se_mediums")),
         board |-> select_board(content),
         lastPublishedOn |-> get(content, "lastPublishedOn", PyNone)])

(***************************************************************************)
(* _extract_content_item called on the metadata of one node.               *)
(***************************************************************************)
CB == <<"C", "B">>

IC == <<"I", "C">>

\* what a key can hold: nothing (no key), null, '', a str, [], lists of str
Values ==
    {Absent, PyNone, PyStr(<<>>), PyStr(CB), PyList(<<>>), PyList(<<CB>>),
     PyList(<<CB, IC>>)}

\* the generic and the prefixed value of the attributes that vary less
FewPairs ==
    {<<Absent, Absent>>, <<Absent, PyStr(IC)>>, <<PyList(<<>>), PyList(<<CB, IC>>)>>}

\* the key with its value, or no key
Field(k, x) == IF x = Absent THEN <<>> ELSE (k :> x)

\* the fields every node has
Required ==
    [identifier |-> PyStr(do_103), name |-> PyStr(<<"c", "h">>),
     mimeType |-> PyStr(<<"p", "d", "f">>), primaryCategory |-> PyStr(<<"e", "T">>),
     artifactUrl |-> PyStr(<<"u", "r", "l">>)]

Contents ==
    {Required @@ Field("subject", s) @@ Field("se_subjects", ses)
        @@ Field("board", b) @@ Field("se_boards", seb)
        @@ Field("gradeLevel", g[1]) @@ Field("se_gradeLevels", g[2])
        @@ Field("medium", m[1]) @@ Field("se_mediums", m[2]) :
     s \in Values, ses \in Values, b \in Values, seb \in Values,
     g \in FewPairs, m \in FewPairs}

ExtractInit ==
    /\ Idle
    /\ call \in {[fn |-> "_extract_content_item", content |-> c] : c \in Contents}
    /\ result = NoResult

\* content_item = self._extract_content_item(content)
call_extract_content_item ==
    /\ call.fn = "_extract_content_item"
    /\ result = NoResult
    /\ result' = [pc |-> "returned", value |-> _extract_content_item(call.content)]
    /\ UNCHANGED <<call, main_vars>>

ExtractNext == call_extract_content_item

ExtractSpec == ExtractInit /\ [][ExtractNext]_vars

(***************************************************************************)
(* Search parameters.  A filters value is a dict (type "dict", d from key  *)
(* to a str or a list of str), something else (type "list"), or absent.    *)
(* A limit is absent, an int, a str int() can parse (type "numstr"), a str *)
(* it cannot (type "str"), or None.                                        *)
(***************************************************************************)
St == <<"S", "t">>

\* settings.CONTENT_FILTERS cut down to two keys ('CB' and 'St' stand for
\* allowed values, 'IC' for one that is not allowed)
VALID_FILTERS == ("se_boards" :> {CB}) @@ ("audience" :> {St})

VALID_FACETS == {"se_boards", "se_subjects"}

NoFilters == [type |-> "absent", d |-> <<>>]

Dict(d) == [type |-> "dict", d |-> d]

FiltersTried ==
    {NoFilters,
     [type |-> "list", d |-> <<>>],
     Dict(<<>>),
     Dict("se_boards" :> PyList(<<CB>>)),
     Dict("se_boards" :> PyStr(CB)),
     Dict("se_boards" :> PyStr(IC)),
     Dict("se_boards" :> PyList(<<CB, IC, IC>>)),
     Dict("colour" :> PyList(<<CB>>)),
     Dict(("se_boards" :> PyList(<<IC>>)) @@ ("colour" :> PyStr(CB))),
     Dict(("se_boards" :> PyList(<<CB>>)) @@ ("audience" :> PyList(<<St>>)))}

PyInt(n) == [type |-> "int", n |-> n]

NoInt == [type |-> "absent", n |-> 0]

LimitsTried ==
    {NoInt, [type |-> "none", n |-> 0], [type |-> "str", n |-> 0],
     [type |-> "numstr", n |-> 0], [type |-> "numstr", n |-> 7]}
    \cup {PyInt(n) : n \in (0 - LimitSlack)..(MAX_LIMIT + LimitSlack)}

\* int(x): the integer, or the exception it raises
int(x) ==
    IF x.type \in {"int", "numstr"} THEN [raised |-> "no", n |-> x.n]
    ELSE IF x.type = "none" THEN [raised |-> "TypeError", n |-> 0]
    ELSE [raised |-> "ValueError", n |-> 0]

min(a, b) == IF a <= b THEN a ELSE b

\* the values of one filter: "if not isinstance(values, list): values = [values]"
filter_values(x) == IF x.type = "list" THEN x.v ELSE <<x.v[1]>>

\* validate_filters as a mutation would have it: the keys are checked against
\* the allow-list, the values are not
validate_filters_keys_only(filters, ENABLE_INPUT_VALIDATION) ==
    IF ~ENABLE_INPUT_VALIDATION THEN {}
    ELSE IF filters.type # "dict" THEN {[error |-> "Filters must be a dictionary"]}
    ELSE {[error |-> "Invalid filter key", key |-> k] :
              k \in {k \in DOMAIN filters.d : k \notin DOMAIN VALID_FILTERS}}

\* validate_filters (server.py and api/search/validation.py hold the same
\* function): the errors appended, one for each key outside VALID_FILTERS and
\* one for each listed value outside VALID_FILTERS[key]
validate_filters(filters, ENABLE_INPUT_VALIDATION) ==
    IF ~ENABLE_INPUT_VALIDATION THEN {}
    ELSE IF filters.type # "dict" THEN {[error |-> "Filters must be a dictionary"]}
    ELSE {[error |-> "Invalid filter key", key |-> k] :
              k \in {k \in DOMAIN filters.d : k \notin DOMAIN VALID_FILTERS}}
         \cup UNION {{[error |-> "Invalid value", key |-> k, at |-> i] :
                        i \in {i \in DOMAIN filter_values(filters.d[k]) :
                                  filter_values(filters.d[k])[i] \notin VALID_FILTERS[k]}} :
                     k \in DOMAIN filters.d \cap DOMAIN VALID_FILTERS}

\* validate_fields_and_facets, for the default fields
validate_fields_and_facets(facets, ENABLE_INPUT_VALIDATION) ==
    IF ~ENABLE_INPUT_VALIDATION THEN {}
    ELSE {[error |-> "Invalid facet", at |-> i] :
              i \in {i \in DOMAIN facets : facets[i] \notin VALID_FACETS}}

(***************************************************************************)
(* The tool search_sunbird_content of server.py.                           *)
(***************************************************************************)
SearchToolInit ==
    /\ Idle
    /\ call \in [fn : {"search_sunbird_content"},
                  ENABLE_INPUT_VALIDATION : BOOLEAN,
                  isdict : BOOLEAN,
                  filters : {NoFilters, Dict("se_boards" :> PyList(<<CB>>)),
                             Dict("colour" :> PyList(<<CB>>))},
                  facets : {<<>>, <<"se_boards", "colour">>},
                  limit : LimitsTried,
                  offset : {NoInt, PyInt(5), [type |-> "str", n |-> 0]}]
    /\ result = NoResult

\* search_sunbird_content up to the POST of _execute_search_request, or to
\* the return of an error
call_search_sunbird_content ==
    /\ call.fn = "search_sunbird_content"
    /\ result = NoResult
    /\ LET filters == IF call.filters = NoFilters THEN Dict(<<>>) ELSE call.filters
           filter_errors == validate_filters(filters, call.ENABLE_INPUT_VALIDATION)
           validation_errors ==
               validate_fields_and_facets(call.facets, call.ENABLE_INPUT_VALIDATION)
           lim == int(IF call.limit = NoInt THEN PyInt(DEFAULT_LIMIT) ELSE call.limit)
           off == int(IF call.offset = NoInt THEN PyInt(0) ELSE call.offset)
           error(e) == [pc |-> "returned", response |-> [error |-> e]]
       IN  result' =
               IF ~call.isdict THEN error("Search parameters must be a dictionary")
               ELSE IF filter_errors # {} THEN error("Invalid filters")
               ELSE IF validation_errors # {} THEN error("Validation error")
               ELSE IF lim.raised # "no" \/ off.raised # "no"
                    THEN error("Failed to process request")
               ELSE [pc |-> "posted",
                     payload |-> [filters |-> filters, limit |-> min(lim.n, MAX_LIMIT),
                                  offset |-> off.n, facets |-> call.facets]]
    /\ UNCHANGED <<call, main_vars>>

\* _execute_search_request: the POST ends with 200, another status, or an
\* exception, and the tool returns the books or an error
execute_search_request_return(outcome) ==
    /\ call.fn = "search_sunbird_content"
    /\ result.pc = "posted"
    /\ result' = [pc |-> "returned", payload |-> result.payload,
                  response |-> IF outcome = "ok" THEN [books |-> "book_list"]
                               ELSE IF outcome = "error"
                                    THEN [error |-> "Sunbird API request failed"]
                               ELSE [error |-> "Failed to process request"]]
    /\ UNCHANGED <<call, main_vars>>

SearchToolNext ==
    \/ call_search_sunbird_content
    \/ \E outcome \in {"ok", "error", "raise"} : execute_search_request_return(outcome)

SearchToolSpec == SearchToolInit /\ [][SearchToolNext]_vars

(***************************************************************************)
(* SearchProcessor of api/search/api.py, driven by BaseProcessor.process.  *)
(* result.steps lists the steps process has awaited, result.posts the      *)
(* payloads POSTed to the search endpoint.                                 *)
(***************************************************************************)
\* bool(params['filters']): a list stands for a non-empty list given where a
\* dict is expected
filters_truthy(filters) ==
    \/ filters.type = "list"
    \/ filters.type = "dict" /\ DOMAIN filters.d # {}

\* validate_search_params: the sanitised parameters and the errors
validate_search_params(search_params, ENABLE_INPUT_VALIDATION) ==
    LET limit_ == int(search_params.limit)
        offset == int(search_params.offset)
        limit_ok == limit_.raised = "no" /\ 1 <= limit_.n /\ limit_.n <= 100
        offset_ok == offset.raised = "no" /\ offset.n >= 0
    IN  [validated |->
            [filters |-> IF filters_truthy(search_params.filters) /\ search_params.filters.type = "dict"
                         THEN search_params.filters.d ELSE <<>>,
             limit |-> IF search_params.limit # NoInt /\ limit_ok THEN limit_.n ELSE 10,
             offset |-> IF search_params.offset # NoInt /\ offset_ok THEN offset.n ELSE 0,
             facets |-> search_params.facets],
         errors |->
            (IF ~filters_truthy(search_params.filters) THEN {}
             ELSE IF search_params.filters.type # "dict"
                  THEN {[error |-> "Filters must be a dictionary"]}
             ELSE validate_filters(search_params.filters, ENABLE_INPUT_VALIDATION))
            \cup (IF search_params.limit = NoInt \/ limit_ok THEN {}
                  ELSE {[error |-> "Limit must be an integer between 1 and 100"]})
            \cup (IF search_params.offset = NoInt \/ offset_ok THEN {}
                  ELSE {[error |-> "Offset must be a non-negative integer"]})
            \cup (IF search_params.facets = <<>> THEN {}
                  ELSE validate_fields_and_facets(search_params.facets,
                                                  ENABLE_INPUT_VALIDATION))]

\* SearchProcessor._build_search_payload
build_search_payload(request) ==
    [filters |-> request.filters, limit |-> request.limit,
     offset |-> request.offset, facets |-> request.facets]

\* the order of the steps, as a mutation would have it: post_process awaited
\* before execute
next_step_post_process_first(step) ==
    CASE step = "pre_process" -> "post_process"
      [] step = "post_process" -> "execute"
      [] OTHER -> "return"

\* BaseProcessor.process: what follows a step that has returned
next_step(step) ==
    CASE step = "pre_process" -> "execute"
      [] step = "execute" -> "post_process"
      [] OTHER -> "return"

\* process leaves through its except clause: the step that raised, the
\* exception that process raises, and the errors the exception carries
step_raised(r, step, exception, errors) ==
    [r EXCEPT !.pc = "raised", !.raised_in = step, !.errors = errors,
              !.exception = process_except(exception).exception]

\* process awaits one step with the value of the step before it, and goes on
\* until a step raises, execute is suspended in its POST, or process returns
RECURSIVE await_step(_, _, _)
await_step(step, value, r) ==
    LET r1 == [r EXCEPT !.steps = Append(@, step)]
    IN  CASE step = "pre_process" ->
               LET v == validate_search_params(value, call.ENABLE_INPUT_VALIDATION)
               IN  IF v.errors # {}
                   THEN step_raised(r1, step, "ValidationError", v.errors)
                   ELSE await_step(next_step(step),
                                   [type |-> "SearchRequest", request |-> v.validated],
                                   r1)
          [] step = "execute" ->
               IF value.type # "SearchRequest"
               THEN step_raised(r1, step, "AttributeError", {})
               ELSE [r1 EXCEPT !.pc = "posted",
                               !.posts = Append(@, build_search_payload(value.request))]
          [] step = "post_process" ->
               IF value.type # "dict"
               THEN step_raised(r1, step, "SunbirdAPIError", {})
               ELSE await_step(next_step(step), [type |-> "SearchResponse"], r1)
          [] OTHER -> [r EXCEPT !.pc = "returned"]

SearchInit ==
    /\ Idle
    /\ call \in [fn : {"process"},
                  ENABLE_INPUT_VALIDATION : BOOLEAN,
                  filters : FiltersTried,
                  facets : {<<>>, <<"se_boards", "colour">>},
                  limit : LimitsTried,
                  offset : {NoInt, PyInt(5), PyInt(-1)}]
    /\ result = NoResult

\* SearchProcessor.process(request_data) up to its first suspension
call_process ==
    /\ call.fn = "process"
    /\ result = NoResult
    /\ result' = await_step("pre_process", call,
                            [pc |-> "called", steps |-> <<>>, posts |-> <<>>,
                             raised_in |-> "none", exception |-> "none",
                             errors |-> {}])
    /\ UNCHANGED <<call, main_vars>>

\* the POST of execute ends: a JSON object, JSON of another type, a status
\* that raise_for_status refuses, or an exception of the transport
execute_return(outcome) ==
    /\ call.fn = "process"
    /\ result.pc = "posted"
    /\ result' =
           IF outcome \in {"error", "raise"}
           THEN step_raised(result, "execute", "SunbirdAPIError", {})
           ELSE await_step(next_step("execute"),
                           [type |-> IF outcome = "ok" THEN "dict" ELSE "list"],
                           result)
    /\ UNCHANGED <<call, main_vars>>

SearchNext ==
    \/ call_process
    \/ \E outcome \in {"ok", "ok_list", "error", "raise"} : execute_return(outcome)

SearchSpec == SearchInit /\ [][SearchNext]_vars

(***************************************************************************)
(* Vocabulary of the properties.                                           *)
(***************************************************************************)
Sandbox == flavor = "sandbox"

Returned == response.kind = "payload"

ChildTasks == Tasks \ {Main}

FetchFailed(t) == task[t].got \in {"notfound", "error", "raise"}

\* the identifiers of the items of a list
Identifiers(items) == {items[i].identifier : i \in 1..Len(items)}

\* a task whose GET returned the metadata of a node that is no collection
FetchedLeaf(t) ==
    /\ task[t].got = "ok"
    /\ Finished(t)
    /\ upstream[task[t].node].mimeType # COLLECTION_MIME

\* what execute returns when the root resolves and nothing is extracted
AggregateEmpty == sandbox_success(<<>>)

(***************************************************************************)
(* C1.  During one resolution by SandboxContentProcessor the number of     *)
(* _fetch_content calls in flight never exceeds max_concurrent, counted    *)
(* over the whole traversal and all recursion depths.                      *)
(***************************************************************************)
C1_InFlightWithinLimit == Sandbox => Cardinality(InFlight) <= max_concurrent

(***************************************************************************)
(* C2.  In one resolution by SandboxContentProcessor every identifier is   *)
(* requested from upstream at most once, and exactly once as soon as a     *)
(* task for it has passed the visited check (two parents listing it, one   *)
(* parent listing it twice, a failed fetch: no second request), and at     *)
(* most one item is emitted for it.                                        *)
(***************************************************************************)
C2_FetchedAtMostOnce ==
    Sandbox =>
        /\ \A id \in DOMAIN requests : requests[id] <= 1
        /\ \A t \in Tasks :
               task[t].pc \in {"fetching", "gather", "done", "failed"} /\ response.kind # "raised"
                   => Requested(task[t].node) = 1
        /\ \A i, j \in 1..Len(content_items) :
               content_items[i].identifier = content_items[j].identifier => i = j

\* do_103, listed by do_101 (twice) and by do_102, has been handled by tasks
\* of both parents, its one fetch failed or not, and was requested once
C2_Witness ==
    /\ Sandbox
    /\ upstream = SharedGraph
    /\ Returned
    /\ \E a, b \in ChildTasks :
           /\ a[1] # b[1]
           /\ task[a].node = do_103 /\ task[b].node = do_103
           /\ Finished(a) /\ Finished(b)
           /\ task[a].got = "error"
    /\ Requested(do_103) = 1

(***************************************************************************)
(* C3.  A resolution by SandboxContentProcessor terminates on every graph, *)
(* cyclic ones included (A lists B, B lists A, a node lists itself): every *)
(* task eventually completes and execute returns.                          *)
(***************************************************************************)
C3_Terminates == Sandbox => <>(response.kind # "none" /\ \A t \in Tasks : Finished(t))

\* the cyclic graph resolved: the tasks for the back edge to do_100 and the
\* self reference of do_101 are done, and execute returned the one leaf
C3_Witness ==
    /\ Sandbox
    /\ upstream = CyclicGraph
    /\ Returned
    /\ response.count = 1
    /\ \A t \in Tasks : Finished(t)
    /\ \E a, b \in ChildTasks : task[a].node = do_100 /\ task[b].node = do_101 /\ a[1] = do_101 /\ b[1] = do_101

(***************************************************************************)
(* C4.  If the fetch of one child fails (404, another status, or an        *)
(* exception of the HTTP call), the resolution still reports success and   *)
(* the leaf items of the other children are in the returned content.       *)
(***************************************************************************)
C4_PartialFailureIsolated ==
    (/\ Sandbox
     /\ Returned
     /\ task[Main].got = "ok"
     /\ Cardinality({t \in ChildTasks : FetchFailed(t)}) = 1)
    => /\ response.success
       /\ \A t \in ChildTasks :
              FetchedLeaf(t) /\ upstream[task[t].node].name # Null
                  => task[t].node \in Identifiers(response.content)

(***************************************************************************)
(* C5.  SandboxContentProcessor.execute returns only when every task of    *)
(* the call tree has completed: at its return no task is running or        *)
(* waiting and no fetch is in flight.                                      *)
(***************************************************************************)
C5_DrainedAtReturn == Sandbox /\ Returned => \A t \in Tasks : Finished(t)

(***************************************************************************)
(* C6.  For the scenario graph (do_100 lists do_101 and do_102, do_101     *)
(* lists do_103, do_102 and do_103 are leaves) and no failing fetch,       *)
(* resolving do_100 returns exactly the items of do_102 and do_103,        *)
(* count 2, and none for do_101, under every interleaving.                 *)
(***************************************************************************)
C6_Scenario ==
    (/\ Sandbox
     /\ upstream = ScenarioGraph
     /\ Returned
     /\ \A t \in Tasks : ~FetchFailed(t))
    => /\ response.success
       /\ response.count = 2
       /\ Len(response.content) = 2
       /\ Identifiers(response.content) = {do_102, do_103}

C6_Witness ==
    /\ Sandbox
    /\ upstream = ScenarioGraph
    /\ Returned
    /\ \A t \in Tasks : ~FetchFailed(t)
    /\ response.content[1].identifier = do_103
    /\ response.content[2].identifier = do_102

(***************************************************************************)
(* C7.  For a root identifier outside the accepted syntax ('do_' + digits, *)
(* or 'do_' + 32 hexadecimal characters) the content retrieval entry point *)
(* (ContentProcessor.process) issues no upstream request.                  *)
(***************************************************************************)
C7_InvalidIdNeverFetched ==
    (flavor = "content" /\ params.has_id /\ ~AcceptedSyntax(params.content_id))
    => requests = <<>>

C9_RootFailureDistinguished ==
    Sandbox /\ Returned /\ FetchFailed(Main) => response # AggregateEmpty

(***************************************************************************)
(* C9 as amended.  A root that resolved and yielded no item gives the      *)
(* AggregateEmpty payload (success, empty content, no error).  A root      *)
(* fetch that raised (transport failure) gives a different payload         *)
(* (success false, an error); a root fetch that ended in 404 or another    *)
(* non-200 status gives the AggregateEmpty payload itself.                 *)
(***************************************************************************)
C9_OnlyRaisedRootFailureDistinguished ==
    Sandbox /\ Returned =>
        /\ task[Main].got = "raise" => response # AggregateEmpty /\ ~response.success /\ response.error # Null
        /\ task[Main].got \in {"notfound", "error"} => response = AggregateEmpty
        /\ task[Main].got = "ok" /\ response.success /\ content_items = <<>> => response = AggregateEmpty

\* the root fetch raised and execute returned the failure payload
C9_Witness ==
    /\ Sandbox
    /\ Returned
    /\ task[Main].got = "raise"
    /\ response.error # Null

(***************************************************************************)
(* C10.  When the root identifier is malformed, get_content_artifacts and  *)
(* get_sandbox_content_artifacts return a payload carrying an error        *)
(* string; they do not end by raising an exception.                        *)
(***************************************************************************)
C10_MalformedIdGetsErrorPayload ==
    (/\ flavor \in {"sandbox", "content"}
     /\ params.has_id /\ ~AcceptedSyntax(params.content_id)
     /\ response.kind # "none")
    => response.kind = "payload" /\ response.error # Null

(***************************************************************************)
(* C11.  Every call of SandboxContentProcessor.process starts with an      *)
(* empty visited_ids and an empty content_items, also when the processor   *)
(* instance has handled a call before: no item of an earlier call is in    *)
(* the result, and the root, visited in the earlier call, is fetched again. *)
(***************************************************************************)
C11_FreshStatePerCall ==
    Sandbox =>
        /\ task[Main].pc = "start" => visited_ids = {} /\ content_items = <<>>
        /\ Returned /\ pre_process(params) = "ok" => Requested(params.content_id.s) = 1

(***************************************************************************)
(* C12.  When the root resolves and no leaf qualifies, ContentProcessor    *)
(* returns a payload without error, with an empty artifact_urls and count  *)
(* 0: both for a root whose leafNodes is empty or absent and for a root    *)
(* whose children all fail the filter.                                     *)
(***************************************************************************)
C12_ZeroLeavesIsNotAnError ==
    (flavor = "content" /\ Returned /\ task[Main].got = "ok" /\ artifact_urls = <<>>)
    => /\ response.error = Null
       /\ response.artifact_urls = <<>>
       /\ response.count = 0

(***************************************************************************)
(* C13.  A root that is a collection without children (leafNodes empty or  *)
(* absent), resolved by SandboxContentProcessor, gives a success payload   *)
(* with empty content, count 0 and no error, and exactly one upstream      *)
(* request, the one for the root.                                          *)
(***************************************************************************)
C13_EmptyCollectionRoot ==
    (/\ Sandbox
     /\ Returned
     /\ task[Main].got = "ok"
     /\ upstream[task[Main].node].mimeType = COLLECTION_MIME
     /\ "leafNodes" \in DOMAIN upstream[task[Main].node]
            => upstream[task[Main].node].leafNodes = <<>>)
    => /\ response.success
       /\ response.content = <<>>
       /\ response.count = 0
       /\ response.error = Null
       /\ requests = (task[Main].node :> 1)
       /\ Tasks = {Main}

\* the root without a leafNodes key was fetched and execute returned
C13_Witness ==
    /\ Sandbox
    /\ upstream = AbsentLeafNodesGraph
    /\ Returned
    /\ task[Main].got = "ok"
    /\ requests = (do_100 :> 1)

(***************************************************************************)
(* Vocabulary of the normalisation claims.                                 *)
(***************************************************************************)
Extracted == call.fn = "_extract_content_item" /\ result.pc = "returned"

\* the value the metadata gives for a key (Absent: no such key)
Given(k) == get(call.content, k, Absent)

\* the canonical list of a value: itself, the one element, or nothing
ListOf(x) ==
    IF x.type = "list" THEN x.v
    ELSE IF x.type = "str" /\ x.v[1] # <<>> THEN <<x.v[1]>>
    ELSE <<>>

NonEmpty(x) == ListOf(x) # <<>>

\* the rule of the specification: the generic field when present and
\* non-empty, otherwise the prefixed variant
Preferred(generic, prefixed) ==
    IF NonEmpty(Given(generic)) THEN Given(generic) ELSE Given(prefixed)

ListAttributes ==
    {<<"subject", "se_subjects">>, <<"gradeLevel", "se_gradeLevels">>,
     <<"medium", "se_mediums">>}

Attributes == ListAttributes \cup {<<"board", "se_boards">>}

\* the board the code arrives at, told from the metadata: the generic board
\* when non-empty, else the first element (of a list) or first character (of
\* a str) of a non-empty se_boards, else the generic board (None if absent)
BoardOf ==
    IF NonEmpty(Given("board")) THEN Given("board")
    ELSE IF NonEmpty(Given("se_boards"))
         THEN (IF Given("se_boards").type = "list" THEN PyStr(Given("se_boards").v[1])
               ELSE PyStr(<<Given("se_boards").v[1][1]>>))
    ELSE IF Given("board") = Absent THEN PyNone
    ELSE Given("board")

(***************************************************************************)
(* C14 as claimed.  For each of subject, grade level, medium and board the *)
(* item holds the generic field when present and non-empty, otherwise the  *)
(* value of the prefixed variant (compared as lists, so that only the      *)
(* choice of the value is at stake, not its shape).                        *)
(***************************************************************************)
C14_GenericElsePrefixed ==
    Extracted /\ result.value # <<>> =>
        \A a \in Attributes :
            ListOf(result.value[1][a[1]]) = ListOf(Preferred(a[1], a[2]))

(***************************************************************************)
(* C14 as amended.  In an item that is produced, subject, gradeLevel and   *)
(* medium hold the generic field when present and non-empty, otherwise the *)
(* prefixed variant, as a list (a scalar becomes a one-element list, an    *)
(* absent or empty value the empty list).  board holds the generic board   *)
(* when non-empty, otherwise only the first element of a non-empty         *)
(* se_boards (the first character when se_boards is a str), otherwise the  *)
(* generic board itself (None if absent).                                  *)
(***************************************************************************)
C14_ListsPreferredBoardFirstElement ==
    Extracted /\ result.value # <<>> =>
        /\ \A a \in ListAttributes :
               result.value[1][a[1]] = PyList(ListOf(Preferred(a[1], a[2])))
        /\ result.value[1].board = BoardOf

\* a node with se_subjects 'CB' (a scalar) and no subject: subject is ['CB'];
\* its se_boards ['CB', 'IC'] gave the board 'CB'
C14_Witness ==
    /\ Extracted
    /\ Given("subject") = Absent
    /\ Given("se_subjects") = PyStr(CB)
    /\ Given("board") = Absent
    /\ Given("se_boards") = PyList(<<CB, IC>>)
    /\ result.value # <<>>
    /\ result.value[1].subject = PyList(<<CB>>)
    /\ result.value[1].board = PyStr(CB)

(***************************************************************************)
(* C15 as claimed.  In every item produced, subject, grade level, medium   *)
(* and board are lists, never null, missing or a bare scalar.              *)
(***************************************************************************)
C15_AllFourAreLists ==
    Extracted /\ result.value # <<>> =>
        \A a \in Attributes : result.value[1][a[1]].type = "list"

(***************************************************************************)
(* C15 as amended.  In every item produced, subject, gradeLevel and medium *)
(* are lists (never null or a scalar), and board is never a list: it is a  *)
(* str, or None when neither board nor se_boards gives a value.  A node    *)
(* whose board comes out as a list (a generic board that is a non-empty    *)
(* list, or that is [] with no non-empty se_boards) produces no item; every *)
(* other node produces one.                                                *)
(***************************************************************************)
C15_ThreeListsScalarBoard ==
    Extracted =>
        /\ result.value # <<>> =>
               /\ \A a \in ListAttributes : result.value[1][a[1]].type = "list"
               /\ result.value[1].board.type \in {"str", "none"}
               /\ result.value[1].board.type = "none" <=>
                      /\ Given("board") \in {Absent, PyNone}
                      /\ ~NonEmpty(Given("se_boards"))
        /\ result.value = <<>> <=>
               /\ Given("board").type = "list"
               /\ NonEmpty(Given("board")) \/ ~NonEmpty(Given("se_boards"))

\* a node with the scalar board 'CB', the scalar se_gradeLevels 'IC' and no
\* medium: the item has board 'CB' (a str), gradeLevel ['IC'], medium []
C15_Witness ==
    /\ Extracted
    /\ Given("board") = PyStr(CB)
    /\ Given("gradeLevel") = Absent /\ Given("se_gradeLevels") = PyStr(IC)
    /\ Given("medium") = Absent /\ Given("se_mediums") = Absent
    /\ result.value # <<>>
    /\ result.value[1].board = PyStr(CB)
    /\ result.value[1].gradeLevel = PyList(<<IC>>)
    /\ result.value[1].medium = PyList(<<>>)

(***************************************************************************)
(* C16.  read_sunbird_content, for a valid content_id whose leaf nodes are *)
(* all fetched with success, returns artifact_urls holding the             *)
(* streamingUrl of every leaf node whose mimeType is application/pdf and   *)
(* whose streamingUrl is not empty, and count is the number of these URLs. *)
(***************************************************************************)
C16_PdfUrlsReturned ==
    (/\ flavor = "server"
     /\ Returned
     /\ task[Main].pc = "done" /\ task[Main].got = "ok"
     /\ \A t \in ChildTasks : task[t].got = "ok")
    => /\ "artifact_urls" \in DOMAIN response
       /\ \A t \in ChildTasks :
              upstream[task[t].node].mimeType = PDF_MIME_TYPE
                  /\ upstream[task[t].node].streamingUrl # ""
              => \E i \in 1..Len(response.artifact_urls) :
                     response.artifact_urls[i] = upstream[task[t].node].streamingUrl
       /\ response.count = Len(response.artifact_urls)

(***************************************************************************)
(* C17.  In the flat retrieval of api/content/api.py and in the fan-out of *)
(* read_diksha_content, for a well-formed request whose root the service   *)
(* knows: never more than limit fetch_and_filter calls are in flight, and  *)
(* every child identifier of the root is eventually fetched (unless the    *)
(* fetch of the root itself failed, when there is no child identifier).    *)
(***************************************************************************)
\* the child identifiers the service lists for the root of the request
RootChildren ==
    IF params.content_id.s \in DOMAIN upstream
    THEN get(upstream[params.content_id.s], "leafNodes", <<>>)
    ELSE <<>>

C17_FlatFanOutBoundedAndComplete ==
    (/\ flavor \in {"content", "diksha"}
     /\ params.has_id
     /\ validate_content_id(params.content_id) = <<>>
     /\ params.fields # "other"
     /\ params.content_id.s \in DOMAIN upstream)
    => /\ [](Cardinality(InFlight \ {Main}) <= limit)
       /\ <>(\/ FetchFailed(Main)
             \/ \A c \in DOMAIN RootChildren : Requested(RootChildren[c]) >= 1)

(***************************************************************************)
(* C18.  search_sunbird_content never sends an upstream search request     *)
(* whose limit is outside 1..100: whatever integer the caller gives (0 and *)
(* negative ones included), the request is rejected or carries a limit     *)
(* within 1..100.                                                          *)
(***************************************************************************)
C18_SentLimitWithinRange ==
    (call.fn = "search_sunbird_content" /\ "payload" \in DOMAIN result)
    => result.payload.limit \in 1..100

(***************************************************************************)
(* Vocabulary of the search properties.                                    *)
(***************************************************************************)
Processed == call.fn = "process" /\ result # NoResult

\* the keys of the filters given that are outside the allow-list
OffendingKeys ==
    IF call.fn = "process" /\ call.filters.type = "dict"
    THEN {k \in DOMAIN call.filters.d : k \notin DOMAIN VALID_FILTERS}
    ELSE {}

\* the values given, by key and position, that are outside the values the
\* allow-list has for their key
OffendingValues ==
    IF call.fn = "process" /\ call.filters.type = "dict"
    THEN UNION {{<<k, i>> :
                    i \in {i \in DOMAIN filter_values(call.filters.d[k]) :
                              filter_values(call.filters.d[k])[i] \notin VALID_FILTERS[k]}} :
                k \in DOMAIN call.filters.d \cap DOMAIN VALID_FILTERS}
    ELSE {}

FilterErrors ==
    {e \in result.errors : e.error \in {"Invalid filter key", "Invalid value"}}

\* nothing was sent upstream, execute was not awaited, and validation has one
\* error for each offending key and value
RejectedWithEveryError ==
    /\ result.pc = "raised"
    /\ result.exception = "ValidationError"
    /\ result.posts = <<>>
    /\ result.steps = <<"pre_process">>
    /\ Cardinality(FilterErrors) = Cardinality(OffendingKeys) + Cardinality(OffendingValues)

(***************************************************************************)
(* C19.  SearchProcessor.process never sends an upstream search request    *)
(* when the filters given hold a key outside the allow-list or a value     *)
(* outside the values allowed for its key: validation reports an error for *)
(* each such key and value and execute is not invoked.                     *)
(***************************************************************************)
C19_BadFiltersNeverSent ==
    (Processed /\ OffendingKeys \cup OffendingValues # {})
    => RejectedWithEveryError

\* C19 as the code has it: the same, as long as
\* settings.ENABLE_INPUT_VALIDATION is set; when it is not, validate_filters
\* reports nothing and the filters do not stop the request
C19_BadFiltersNeverSentWhenValidationEnabled ==
    (Processed /\ OffendingKeys \cup OffendingValues # {})
    => IF call.ENABLE_INPUT_VALIDATION
       THEN RejectedWithEveryError
       ELSE FilterErrors = {}

C19_Witness ==
    /\ Processed
    /\ call.ENABLE_INPUT_VALIDATION
    /\ OffendingKeys # {}
    /\ OffendingValues # {}
    /\ call.limit = NoInt
    /\ result.pc = "raised"
    /\ Cardinality(result.errors) = 2

(***************************************************************************)
(* C20.  BaseProcessor.process runs pre_process, execute and post_process  *)
(* in this order, each at most once in a call: execute is never invoked    *)
(* when pre_process raises and post_process is never invoked when execute  *)
(* raises.                                                                 *)
(***************************************************************************)
C20_StepsInOrderAtMostOnce ==
    Processed
    => /\ \E n \in 1..3 :
              result.steps = SubSeq(<<"pre_process", "execute", "post_process">>, 1, n)
       /\ result.raised_in = "pre_process" => result.steps = <<"pre_process">>
       /\ result.raised_in = "execute" => result.steps = <<"pre_process", "execute">>
       /\ result.pc = "posted" => result.steps = <<"pre_process", "execute">>
       /\ result.pc = "returned" => Len(result.steps) = 3

C20_Witness ==
    /\ Processed
    /\ result.pc = "raised"
    /\ result.raised_in = "execute"
    /\ result.steps = <<"pre_process", "execute">>
    /\ Len(result.posts) = 1

(***************************************************************************)
(* Vocabulary of the slot properties.                                      *)
(***************************************************************************)
\* the identifiers a task can be for, and the tasks a call can create
Identifiers_ == {do_100, do_101, do_102, do_103, do_104, do_105, do_x}

TaskIds == {Main} \cup (Identifiers_ \X (1..3))

WaitingForSlot(t) == t \in Tasks /\ task[t].pc = "waiting"

\* the task is past "async with semaphore": it has its slot, or has left
PastAdmission(t) == t \in Tasks /\ task[t].pc # "waiting"

\* the task holds a slot of its parent's semaphore while it awaits the
\* gather of its own children
HoldsSlotInGather(t) == t \in ChildTasks /\ task[t].pc = "gather"

(***************************************************************************)
(* C21.  When every fetch eventually completes and the event loop is fair, *)
(* every task that waits for a slot in _process_child_nodes eventually     *)
(* gets one, and the resolution terminates, also on a graph deeper and     *)
(* wider than max_concurrent: a task that holds a slot while it awaits its *)
(* own children causes no deadlock.                                        *)
(***************************************************************************)
C21_WaitingTaskAdmittedAndTerminates ==
    Sandbox =>
        /\ \A t \in TaskIds : [](WaitingForSlot(t) => <>PastAdmission(t))
        /\ <>(response.kind # "none" /\ \A t \in Tasks : Finished(t))

\* on the deep and wide graph the two slots of the root's semaphore are held
\* by do_101 and do_102, both awaiting their own children, while do_104
\* waits for a slot
C21_Witness ==
    /\ Sandbox
    /\ upstream = DeepWideGraph
    /\ WaitingForSlot(<<do_100, 3>>)
    /\ HoldsSlotInGather(<<do_100, 1>>)
    /\ HoldsSlotInGather(<<do_100, 2>>)

(***************************************************************************)
(* C22.  In every reachable state of a resolution by                       *)
(* SandboxContentProcessor the identifier of every fetch that is in flight *)
(* or has completed is in visited_ids: it is inserted in the step that     *)
(* checks it, before the fetch is issued, and is still there in every      *)
(* later state of the operation.                                           *)
(***************************************************************************)
C22_FetchedImpliesVisited ==
    Sandbox =>
        /\ \A t \in Tasks :
               task[t].pc = "fetching" \/ task[t].got # "none"
                   => task[t].node \in visited_ids
        /\ DOMAIN requests \subseteq visited_ids

\* on the shared graph one fetch is in flight and another has completed, both
\* identifiers are in visited_ids, and a second task for do_103 has returned
\* without a fetch
C22_Witness ==
    /\ Sandbox
    /\ upstream = SharedGraph
    /\ \E a, b, c \in ChildTasks :
           /\ task[a].pc = "fetching" /\ task[a].node = do_103
           /\ task[b].got = "ok" /\ task[b].node = do_101
           /\ task[c].node = do_103 /\ task[c].pc = "done" /\ task[c].got = "none"
    /\ {do_100, do_101, do_103} \subseteq visited_ids

(***************************************************************************)
(* Vocabulary of the traversal properties.                                 *)
(***************************************************************************)
\* a task whose fetch returned the metadata of its node and which has gone
\* on past it
Resolved(t) == task[t].got = "ok" /\ task[t].pc \in {"gather", "done", "failed"}

LeafNodesOf(id) == get(upstream[id], "leafNodes", <<>>)

\* a task per entry of the node's leafNodes has been created by the task
Traversed(t) ==
    \A i \in DOMAIN LeafNodesOf(task[t].node) :
        /\ <<task[t].node, i>> \in Tasks
        /\ task[<<task[t].node, i>>].node = LeafNodesOf(task[t].node)[i]

\* no task was created for an entry of the node's leafNodes
NotTraversed(t) == \A c \in ChildTasks : c[1] # task[t].node

(***************************************************************************)
(* C23 as claimed.  _process_content traverses a fetched node as a         *)
(* collection (a resolve for each child, no item for the node) whenever    *)
(* its mimeType is the collection type or its leafNodes is non-empty.      *)
(***************************************************************************)
C23_CollectionByMimeOrLeafNodes ==
    Sandbox =>
        \A t \in Tasks :
            (/\ Resolved(t)
             /\ \/ upstream[task[t].node].mimeType = COLLECTION_MIME
                \/ LeafNodesOf(task[t].node) # <<>>)
            => /\ Traversed(t)
               /\ task[t].node \notin Identifiers(content_items)

(***************************************************************************)
(* C23 as amended.  The mimeType alone decides.  A fetched node whose      *)
(* mimeType is the collection type is traversed (a resolve for each entry  *)
(* of leafNodes, none when leafNodes is empty or absent) and gives no      *)
(* item.  A fetched node of any other mimeType is extracted as an item and *)
(* its leafNodes, empty or not, is not traversed.                          *)
(***************************************************************************)
C23_CollectionByMimeOnly ==
    Sandbox =>
        \A t \in Tasks :
            Resolved(t) =>
                IF upstream[task[t].node].mimeType = COLLECTION_MIME
                THEN /\ Traversed(t)
                     /\ task[t].node \notin Identifiers(content_items)
                ELSE /\ NotTraversed(t)
                     /\ upstream[task[t].node].name # Null
                            => task[t].node \in Identifiers(content_items)

\* do_101, a PDF that lists do_102, is an item of the result, and do_102 was
\* never requested
C23_Witness ==
    /\ Sandbox
    /\ upstream = HybridGraph
    /\ Returned
    /\ response.success
    /\ Identifiers(response.content) = {do_101}
    /\ Requested(do_102) = 0
    /\ Requested(do_101) = 1

(***************************************************************************)
(* Vocabulary of the flat retrieval properties.                            *)
(***************************************************************************)
\* the child tasks whose fetch has ended with status 200 and the metadata of
\* a PDF that is no archive and has a streamingUrl
QualifiedFetches ==
    {t \in ChildTasks :
        /\ Finished(t)
        /\ task[t].got = "ok"
        /\ upstream[task[t].node].mimeType = PDF_MIME_TYPE
        /\ upstream[task[t].node].mimeType # EXCLUDED_MIME_TYPE
        /\ upstream[task[t].node].streamingUrl # ""}

(***************************************************************************)
(* C24.  In the flat retrieval of api/content/api.py a child's             *)
(* streamingUrl is appended to artifact_urls if and only if its fetch      *)
(* returned 200, its mimeType is the PDF type and not the archive type,    *)
(* and its streamingUrl is not empty; a child whose fetch returns another  *)
(* status or raises adds nothing and does not keep the URL of any other    *)
(* child from being appended.                                              *)
(***************************************************************************)
C24_AppendedIffFetchedAndQualifies ==
    flavor = "content" =>
        /\ Len(artifact_urls) = Cardinality(QualifiedFetches)
        /\ \A i \in 1..Len(artifact_urls) :
               \E t \in QualifiedFetches :
                   artifact_urls[i] = upstream[task[t].node].streamingUrl
        /\ Returned /\ Tasks # {Main} =>
               /\ response.error = Null
               /\ response.artifact_urls = artifact_urls

\* on the scenario graph the fetch of do_101 raised, and the URL of do_102 is
\* returned all the same
C24_Witness ==
    /\ flavor = "content"
    /\ upstream = ScenarioGraph
    /\ Returned
    /\ {<<do_100, 1>>, <<do_100, 2>>} \subseteq Tasks
    /\ task[<<do_100, 1>>].got = "raise"
    /\ task[<<do_100, 2>>].got = "ok"
    /\ response.artifact_urls = <<PdfLeaf.streamingUrl>>

(***************************************************************************)
(* C25.  In the flat retrieval (ContentProcessor.execute with              *)
(* run_concurrent_fetches) each qualifying identifier gives exactly one    *)
(* entry of artifact_urls and is fetched once, also when the leafNodes of  *)
(* the root holds the identifier more than once.                           *)
(***************************************************************************)
C25_OneEntryAndOneFetchPerIdentifier ==
    (flavor = "content" /\ Returned /\ task[Main].got = "ok")
    => /\ Len(artifact_urls) = Cardinality({task[t].node : t \in QualifiedFetches})
       /\ \A t \in ChildTasks : Requested(task[t].node) = 1

(***************************************************************************)
(* C26.  Item extraction has no failure mode in a resolution by            *)
(* SandboxContentProcessor: every node that is no collection and was       *)
(* fetched with status 200 gives exactly one item of the result, a missing *)
(* or null descriptive field being replaced by a default; no such node is  *)
(* dropped.                                                                *)
(***************************************************************************)
C26_EveryFetchedLeafGivesOneItem ==
    Sandbox =>
        \A t \in Tasks :
            FetchedLeaf(t) =>
                Cardinality({i \in 1..Len(content_items) :
                                content_items[i].identifier = task[t].node}) = 1

(***************************************************************************)
(* C27.  In every payload returned by SandboxContentProcessor.execute and  *)
(* by ContentProcessor.execute, count is the number of entries of the      *)
(* returned list (content, artifact_urls); a payload with an error has an  *)
(* empty list and count 0, and a success payload has no error.             *)
(***************************************************************************)
C27_CountMatchesListAndErrorMeansEmpty ==
    /\ Sandbox /\ Returned =>
           /\ response.count = Len(response.content)
           /\ response.error # Null => response.content = <<>> /\ response.count = 0
           /\ response.success => response.error = Null
           /\ ~response.success => response.error # Null
    /\ flavor = "content" /\ Returned =>
           /\ response.count = Len(response.artifact_urls)
           /\ response.error # Null =>
                  response.artifact_urls = <<>> /\ response.count = 0
           /\ task[Main].pc = "done" /\ Tasks # {Main} => response.error = Null

\* a fetch raised after an item had been gathered: the payload has the error,
\* no item and count 0
C27_Witness ==
    /\ Sandbox
    /\ Returned
    /\ response.error # Null
    /\ content_items # <<>>
    /\ response.content = <<>>

(***************************************************************************)
(* Vocabulary of the result properties.                                    *)
(***************************************************************************)
RECURSIVE ReachableFrom(_, _)
\* the identifiers reached from the frontier by following the leafNodes of
\* the nodes whose mimeType is the collection type
ReachableFrom(frontier, seen) ==
    IF frontier \subseteq seen THEN seen
    ELSE LET new == frontier \ seen
             listed(n) ==
                 IF n \in DOMAIN upstream /\ upstream[n].mimeType = COLLECTION_MIME
                 THEN {LeafNodesOf(n)[i] : i \in DOMAIN LeafNodesOf(n)}
                 ELSE {}
         IN  ReachableFrom(UNION {listed(n) : n \in new}, seen \cup new)

\* the nodes reachable from the root that are no collection
ReachableLeaves ==
    {n \in ReachableFrom({params.content_id.s}, {}) \cap DOMAIN upstream :
        upstream[n].mimeType # COLLECTION_MIME}

\* the call returned and no fetch of it failed
ReturnedWithoutFailure ==
    /\ Sandbox
    /\ Returned
    /\ task[Main].got = "ok"
    /\ \A t \in Tasks : ~FetchFailed(t)

(***************************************************************************)
(* C28.  When no fetch fails, the items returned by a resolution of        *)
(* SandboxContentProcessor are the same under every interleaving: exactly  *)
(* the nodes that are no collection and are reachable from the root by the *)
(* leafNodes of nodes of the collection mimeType, one item per node; only  *)
(* the order of the list varies.                                           *)
(***************************************************************************)
C28_ItemsAreTheReachableLeaves ==
    ReturnedWithoutFailure =>
        /\ Identifiers(response.content) = ReachableLeaves
        /\ Len(response.content) = Cardinality(ReachableLeaves)

(***************************************************************************)
(* C29.  Admission slots are conserved: for every semaphore created by     *)
(* _process_child_nodes and by run_concurrent_fetches the number of slots  *)
(* held is between 0 and the limit, a task gives its slot back on every    *)
(* way out (return, swallowed failure, raised exception), and when all the *)
(* tasks of the fan-out have finished no slot is held.                     *)
(***************************************************************************)
C29_SlotsConserved ==
    flavor \in {"sandbox", "content"} =>
        \A n \in DOMAIN sem :
            LET created == {c \in ChildTasks : c[1] = n}
                holders == {c \in created : task[c].pc \in {"fetching", "gather"}}
            IN  /\ 0 <= sem[n]
                /\ sem[n] <= (IF Sandbox THEN max_concurrent ELSE limit)
                /\ sem[n] = Cardinality(holders)
                /\ (\A c \in created : Finished(c)) => sem[n] = 0

\* a fan-out of the sandbox flavour whose tasks have all finished, one by a
\* raised exception, one by a failure that was swallowed, one by a return
\* after holding its slot across its own fan-out; no slot is held
C29_Witness ==
    /\ Sandbox
    /\ upstream = NestedGraph
    /\ do_100 \in DOMAIN sem
    /\ sem[do_100] = 0
    /\ {<<do_100, 1>>, <<do_100, 2>>, <<do_100, 3>>} \subseteq Tasks
    /\ task[<<do_100, 1>>].pc = "done" /\ do_101 \in DOMAIN sem
    /\ task[<<do_100, 2>>].pc = "failed"
    /\ task[<<do_100, 3>>].got = "error" /\ task[<<do_100, 3>>].pc = "done"

(***************************************************************************)
(* C30.  read_diksha_content validates all the child identifiers returned  *)
(* for the root before any fetch of a child: when an entry of leafNodes is *)
(* no non-empty string of the form 'do_' + digits the tool returns an      *)
(* error payload and no child is fetched; the fetches of the children      *)
(* start only when every child identifier is valid.                        *)
(***************************************************************************)
C30_ChildrenValidatedBeforeAnyFetch ==
    (/\ flavor = "diksha"
     /\ validate_content_id(params.content_id) = <<>>)
    => /\ (\E i \in DOMAIN RootChildren :
               validate_content_id(Str(RootChildren[i])) # <<>>)
          => /\ \A i \in DOMAIN RootChildren : Requested(RootChildren[i]) = 0
             /\ response.kind # "none"
                    => response.kind = "payload" /\ "error" \in DOMAIN response
       /\ (\E i \in DOMAIN RootChildren : Requested(RootChildren[i]) > 0)
          => \A i \in DOMAIN RootChildren :
                 validate_content_id(Str(RootChildren[i])) = <<>>

============================================================================
